---- MODULE Spec2Model ----
(***************************************************************************)
(* Model of the fraud-detection service of src/main.py: the startup hook   *)
(* load_resources, the transaction simulator get_wallet_transactions, the  *)
(* POST /analyze-wallet handler analyze_wallet (feature extraction,        *)
(* inference, decision, response) and the background freeze task.          *)
(*                                                                         *)
(* Numbers.  A risk score is an integer count of 10^-5 (0 .. 100000 stands *)
(* for 0.0 .. 1.0); a reported risk_score is an integer count of 10^-4.    *)
(* avg_amount is kept in thousandths (floor), which leaves its comparison  *)
(* with the integer 500 exact.  structuring_score is kept in tenths.       *)
(***************************************************************************)
EXTENDS Integers, Sequences, FiniteSets, TLC

VARIABLES
    started,    \* "no" | "up" | "failed": the outcome of the startup hook
    state,      \* the global dict `state`: encoder and model
    rng,        \* the state of the process-wide generator of module random
    req,        \* per request: what the handler computed for it
    resp,       \* per request: the HTTP response handed to the client
    tasks,      \* per request: the BackgroundTasks queue of the request
    freezeLog   \* per request: the calls of trigger_blockchain_freeze run for it

vars == <<started, state, rng, req, resp, tasks, freezeLog>>

----------------------------------------------------------------------------
(* Bounds of the model *)

\* number of requests the clients send
NumReq == 2
\* longest transaction list drawn in the feature-extraction specification
MaxTxns == 2

Requests == 1..NumReq

----------------------------------------------------------------------------
(* Inputs *)

\* wallet_address values the clients send: those of src/test_endpoints.py and
\* three that contain more than one of the dispatch substrings
Wallets ==
    { "STU_0", "MULE_0", "HUB_COLLECTOR_01", "GOVT_SCHOLARSHIP_DEPT",
      "UNKNOWN_WALLET_XYZ", "STU_MULE_1", "GOVT_STU_HUB", "GOVT_STU_2" }

\* asset_id values the clients send
AssetIds == {100, 200}

\* the classes of the LabelEncoder pickled in label_encoder.pkl, when present
EncoderClasses == {"STU_0", "MULE_0"}

----------------------------------------------------------------------------
(* Strings *)

\* Python's `sub in s`
Contains(sub, s) ==
    \E i \in 1..(Len(s) - Len(sub) + 1) : SubSeq(s, i, i + Len(sub) - 1) = sub

\* the characters of code 48 .. 95, in order
AsciiFrom48 == "0123456789:;<=>?@ABCDEFGHIJKLMNOPQRSTUVWXYZ[\\]^_"

\* ord(c) for the characters the addresses use
Ord(c) == 47 + (CHOOSE i \in 1..Len(AsciiFrom48) : SubSeq(AsciiFrom48, i, i) = c)

----------------------------------------------------------------------------
(* The pseudo-random generator *)

\* width of the seed.  The code reduces the digest modulo 2**32; the model keeps
\* 16 bits of it, which the generator below has as its state space.
SeedMod == 2^16

\* int(hashlib.md5(s.encode()).hexdigest(), 16): a fixed function of the bytes of
\* s and of nothing else.  The digest is modelled by a polynomial hash of the
\* bytes, reduced as it goes.
RECURSIVE Digest(_)
Digest(s) ==
    IF Len(s) = 0 THEN 7
    ELSE (31 * Digest(SubSeq(s, 1, Len(s) - 1)) + Ord(SubSeq(s, Len(s), Len(s)))) % SeedMod

\* random.seed(n): the state of the generator becomes a function of n alone
RandomSeed(n) == n % SeedMod

\* one step of the generator (a Lehmer generator stands for the Mersenne Twister)
RandomStep(s) == ((75 * (s + 1)) % (SeedMod + 1)) - 1

\* the states after 1, 2, ..., n steps from s
RECURSIVE RandomStates(_, _)
RandomStates(s, n) ==
    IF n = 0 THEN <<>>
    ELSE <<RandomStep(s)>> \o RandomStates(RandomStep(s), n - 1)

\* random.randint(a, b), read off the state the step reached
RandInt(s, a, b) == a + (s % (b - a + 1))

----------------------------------------------------------------------------
(* The transaction simulator: get_wallet_transactions *)

MuleTxnMin == 15
MuleTxnMax == 30
HubTxnMin == 20
HubTxnMax == 40
StuTxnMin == 1
StuTxnMax == 5
GovtTxnMin == 40
GovtTxnMax == 60
OtherTxnMin == 1
OtherTxnMax == 3
SmallAmountMin == 100
SmallAmountMax == 500
LargeAmountMin == 1000
LargeAmountMax == 5000
OtherAmountMin == 100
OtherAmountMax == 1000
MuleSenders == 10
StuReceivers == 50

\* txn_count = random.randint(cntLo, cntHi), then one random.randint(amtLo, amtHi)
\* per transaction, in order; rng is the state the generator is left in
Amounts(first, n, sts, amtLo, amtHi) ==
    [ count   |-> n,
      amounts |-> [i \in 1..n |-> RandInt(sts[i], amtLo, amtHi)],
      rng     |-> IF n = 0 THEN first ELSE sts[n] ]

AmountDraws(first, n, amtLo, amtHi) ==
    Amounts(first, n, RandomStates(first, n), amtLo, amtHi)

CountDraw(first, cntLo, cntHi, amtLo, amtHi) ==
    AmountDraws(first, RandInt(first, cntLo, cntHi), amtLo, amtHi)

Draws(s, cntLo, cntHi, amtLo, amtHi) ==
    CountDraw(RandomStep(s), cntLo, cntHi, amtLo, amtHi)

Txn(sender, receiver, amount) ==
    [sender |-> sender, receiver |-> receiver, amount |-> amount]

\* the lists of the five branches, built from the draws d
MuleTxns(wallet_address, d) ==
    [ txns |-> [i \in 1..d.count |->
                 Txn(wallet_address, "HUB_COLLECTOR_01", d.amounts[i])],
      rng  |-> d.rng ]

HubTxns(wallet_address, d) ==
    [ txns |-> [i \in 1..d.count |->
                 Txn("MULE_" \o ToString((i - 1) % MuleSenders),
                     wallet_address, d.amounts[i])],
      rng  |-> d.rng ]

StuTxns(wallet_address, d) ==
    [ txns |-> [i \in 1..d.count |->
                 Txn("GOVT_SCHOLARSHIP_DEPT", wallet_address, d.amounts[i])],
      rng  |-> d.rng ]

GovtTxns(wallet_address, d) ==
    [ txns |-> [i \in 1..d.count |->
                 Txn(wallet_address,
                     "STU_" \o ToString((i - 1) % StuReceivers), d.amounts[i])],
      rng  |-> d.rng ]

OtherTxns(wallet_address, d) ==
    [ txns |-> [i \in 1..d.count |->
                 Txn(wallet_address, "UNKNOWN_RECIPIENT", d.amounts[i])],
      rng  |-> d.rng ]

\* the five branches of get_wallet_transactions, run with the generator in state s
MulePattern(wallet_address, s) ==
    MuleTxns(wallet_address,
             Draws(s, MuleTxnMin, MuleTxnMax, SmallAmountMin, SmallAmountMax))

HubPattern(wallet_address, s) ==
    HubTxns(wallet_address,
            Draws(s, HubTxnMin, HubTxnMax, SmallAmountMin, SmallAmountMax))

StuPattern(wallet_address, s) ==
    StuTxns(wallet_address,
            Draws(s, StuTxnMin, StuTxnMax, LargeAmountMin, LargeAmountMax))

GovtPattern(wallet_address, s) ==
    GovtTxns(wallet_address,
             Draws(s, GovtTxnMin, GovtTxnMax, LargeAmountMin, LargeAmountMax))

OtherPattern(wallet_address, s) ==
    OtherTxns(wallet_address,
              Draws(s, OtherTxnMin, OtherTxnMax, OtherAmountMin, OtherAmountMax))

\* a dispatch that tests STU before MULE and HUB
PatternsStuFirst(wallet_address, s) ==
    IF Contains("STU", wallet_address) THEN StuPattern(wallet_address, s)
    ELSE IF Contains("MULE", wallet_address) THEN MulePattern(wallet_address, s)
    ELSE IF Contains("HUB", wallet_address) THEN HubPattern(wallet_address, s)
    ELSE IF Contains("GOVT", wallet_address) THEN GovtPattern(wallet_address, s)
    ELSE OtherPattern(wallet_address, s)

\* the if / elif chain of get_wallet_transactions, run with the generator in state s
Patterns(wallet_address, s) ==
    IF Contains("MULE", wallet_address) THEN MulePattern(wallet_address, s)
    ELSE IF Contains("HUB", wallet_address) THEN HubPattern(wallet_address, s)
    ELSE IF Contains("STU", wallet_address) THEN StuPattern(wallet_address, s)
    ELSE IF Contains("GOVT", wallet_address) THEN GovtPattern(wallet_address, s)
    ELSE OtherPattern(wallet_address, s)

\* random.seed(md5 of the address), then the chain: computed once per address
SeededRun ==
    [w \in Wallets |-> Patterns(w, RandomSeed(Digest(w)))]

\* a simulator that does not reseed: it draws from the generator as it finds it
GetWalletTransactionsUnseeded(wallet_address, asset_id, rng0) ==
    Patterns(wallet_address, rng0)

\* get_wallet_transactions(wallet_address, asset_id) called with the generator in
\* state rng0: the list returned and the state the generator is left in
GetWalletTransactions(wallet_address, asset_id, rng0) ==
    SeededRun[wallet_address]

----------------------------------------------------------------------------
(* Feature extraction: analyze_wallet, part C *)

AccountAge == 30
StructuringLimit == 500
\* structuring_score in tenths: 0.8 and 0.1
StructuringHigh == 8
StructuringLow == 1

RECURSIVE SumAmounts(_)
SumAmounts(ts) ==
    IF Len(ts) = 0 THEN 0 ELSE Head(ts).amount + SumAmounts(Tail(ts))

\* a score whose comparison with 500 is not strict
StructuringScoreInclusive(out_d, total_amount) ==
    IF out_d > 0 /\ (total_amount * 1000) \div out_d <= StructuringLimit * 1000
    THEN StructuringHigh ELSE StructuringLow

\* a score that forgets the out_d > 0 test
StructuringScoreNoDegree(out_d, total_amount) ==
    IF (IF out_d > 0 THEN (total_amount * 1000) \div out_d ELSE 0) < StructuringLimit * 1000
    THEN StructuringHigh ELSE StructuringLow

\* avg_amount in thousandths: total_amount / max(out_d, 1) if out_d > 0 else 0
AvgAmount(out_d, total_amount) ==
    IF out_d > 0 THEN (total_amount * 1000) \div (IF out_d > 1 THEN out_d ELSE 1) ELSE 0

\* 0.8 if out_d > 0 and avg_amount < 500 else 0.1
StructuringScore(out_d, total_amount) ==
    IF out_d > 0 /\ AvgAmount(out_d, total_amount) < StructuringLimit * 1000
    THEN StructuringHigh ELSE StructuringLow

\* wallet_features = [in_d, out_d, avg_amount, structuring_score, account_age]
FeatureRow(in_d, out_d, total_amount) ==
    << in_d, out_d, AvgAmount(out_d, total_amount),
       StructuringScore(out_d, total_amount), AccountAge >>

\* in_d, out_d and total_amount of the list, then the row
WalletFeatures(txns, wallet_address) ==
    FeatureRow(Len(SelectSeq(txns, LAMBDA t : t.receiver = wallet_address)),
               Len(SelectSeq(txns, LAMBDA t : t.sender = wallet_address)),
               SumAmounts(SelectSeq(txns, LAMBDA t : t.sender = wallet_address)))

----------------------------------------------------------------------------
(* Decision and response: analyze_wallet, parts D and E *)

\* 0.85 and 0.60 in units of 10^-5
FraudThreshold == 85000
ReviewThreshold == 60000

\* the scores the model is let give: each threshold and the grid point of 10^-5
\* just above it, and two scores that round to the same value away from both
Scores ==
    { 0, 4, ReviewThreshold, ReviewThreshold + 1, FraudThreshold, FraudThreshold + 1 }

\* a rounding that forgets the number of digits: round(risk_score)
RoundToUnit(risk_score) ==
    IF risk_score > 50000 THEN 10000 ELSE 0

\* round(risk_score, 4): to the nearest 10^-4, a tie to the even neighbour
Round4(risk_score) ==
    IF risk_score % 10 > 5 \/ (risk_score % 10 = 5 /\ (risk_score \div 10) % 2 = 1)
    THEN (risk_score \div 10) + 1
    ELSE risk_score \div 10

\* the call background_tasks.add_task(trigger_blockchain_freeze, wallet, asset_id)
FreezeTask(wallet, asset_id) ==
    [fn |-> "trigger_blockchain_freeze", wallet |-> wallet, asset_id |-> asset_id]

\* a decision whose first test is not strict
DetermineActionNotStrict(risk_score, wallet_address, asset_id) ==
    IF risk_score >= FraudThreshold THEN
        [decision |-> "FRAUD_HIGH", tasks |-> <<FreezeTask(wallet_address, asset_id)>>]
    ELSE IF risk_score > ReviewThreshold THEN
        [decision |-> "SUSPICIOUS_REVIEW", tasks |-> <<>>]
    ELSE
        [decision |-> "CLEAR", tasks |-> <<>>]

\* a decision that schedules the freeze in the review branch as well
DetermineActionFreezeOnReview(risk_score, wallet_address, asset_id) ==
    IF risk_score > FraudThreshold THEN
        [decision |-> "FRAUD_HIGH", tasks |-> <<FreezeTask(wallet_address, asset_id)>>]
    ELSE IF risk_score > ReviewThreshold THEN
        [decision |-> "SUSPICIOUS_REVIEW",
         tasks |-> <<FreezeTask(wallet_address, asset_id)>>]
    ELSE
        [decision |-> "CLEAR", tasks |-> <<>>]

\* part E: decision = "CLEAR"; if risk_score > 0.85: FRAUD_HIGH and add_task;
\* elif risk_score > 0.60: SUSPICIOUS_REVIEW
DetermineAction(risk_score, wallet_address, asset_id) ==
    IF risk_score > FraudThreshold THEN
        [decision |-> "FRAUD_HIGH", tasks |-> <<FreezeTask(wallet_address, asset_id)>>]
    ELSE IF risk_score > ReviewThreshold THEN
        [decision |-> "SUSPICIOUS_REVIEW", tasks |-> <<>>]
    ELSE
        [decision |-> "CLEAR", tasks |-> <<>>]

----------------------------------------------------------------------------
(* Exceptions *)

HTTPException(status_code, detail) ==
    [cls |-> "HTTPException", status_code |-> status_code, detail |-> detail]

ValueError(msg) == [cls |-> "ValueError", detail |-> msg]

\* the base classes of each exception class raised in the handler
Bases ==
    [ HTTPException |-> {"HTTPException", "Exception"},
      ValueError    |-> {"ValueError", "Exception"} ]

\* whether `except handler_cls` catches e
Catches(handler_cls, e) == handler_cls \in Bases[e.cls]

\* str(e)
Str(e) ==
    IF e.cls = "HTTPException" THEN ToString(e.status_code) \o ": " \o e.detail
    ELSE e.detail

----------------------------------------------------------------------------
(* The encoder and the model *)

NoneEncoder == [isNone |-> TRUE, classes |-> {}]

LabelEncoder(classes) == [isNone |-> FALSE, classes |-> classes]

\* state["encoder"].transform([wallet_address]): a ValueError for an unseen label
Transform(encoder, wallet_address) ==
    IF wallet_address \in encoder.classes
    THEN [raised |-> FALSE, exc |-> ValueError("")]
    ELSE [raised |-> TRUE,
          exc |-> ValueError("y contains previously unseen labels")]

\* the feature rows the handler asks the model about: those of the encoder's
\* classes
ModelInputs ==
    { WalletFeatures(SeededRun[w].txns, w) : w \in EncoderClasses }

\* FraudGNN in eval mode with the weights load_resources left in it (those of
\* model.pt, or the initial ones): a fixed function from the feature row of node 0
\* to the probability of class 1, tabulated on ModelInputs
Models == [ModelInputs -> Scores]

\* with torch.no_grad(): output = model(features, edge_index); probs = exp(output);
\* risk_score = float(probs[0][1]).  A row the table does not list scores 0.
Inference(model, wallet_features) ==
    IF wallet_features \in DOMAIN model THEN model[wallet_features] ELSE 0

----------------------------------------------------------------------------
(* The handler: analyze_wallet *)

\* what one run of the handler computes, before anything is set
Blank(txns, rng1) ==
    [ txns |-> txns, rng |-> rng1, wallet_features |-> <<>>, inferred |-> FALSE,
      risk_score |-> 0 - 1, decision |-> "NONE", tasks |-> <<>>,
      raised |-> FALSE, exc |-> HTTPException(0, ""), result |-> <<>> ]

\* part E and the return, with the risk score in hand
Decided(b, data, wf, risk, act) ==
    [b EXCEPT !.wallet_features = wf,
              !.inferred = TRUE,
              !.risk_score = risk,
              !.decision = act.decision,
              !.tasks = act.tasks,
              !.result = [ address |-> data.wallet_address,
                           risk_score |-> Round4(risk),
                           decision |-> act.decision,
                           monitored_asset |-> data.asset_id ]]

\* part D, with the feature row in hand
Inferred(b, data, st, wf, risk) ==
    Decided(b, data, wf, risk,
            DetermineAction(risk, data.wallet_address, data.asset_id))

\* part C
Extracted(b, data, st, wf) ==
    Inferred(b, data, st, wf, Inference(st.model, wf))

\* part B onwards, with the transactions in hand
Checked(b, data, st, t) ==
    IF st.encoder.isNone THEN
        [b EXCEPT !.raised = TRUE,
                  !.exc = HTTPException(503, "Encoder not loaded. Model not ready.")]
    ELSE IF t.raised /\ Catches("ValueError", t.exc) THEN
        [b EXCEPT !.raised = TRUE,
                  !.exc = HTTPException(404,
                              "Wallet address not found in historical graph data.")]
    ELSE Extracted(b, data, st, WalletFeatures(b.txns, data.wallet_address))

Fetched(g, data, st) ==
    Checked(Blank(g.txns, g.rng), data, st, Transform(st.encoder, data.wallet_address))

\* the body of the try block, parts A to E and the return
TryBlock(data, st, rng0) ==
    Fetched(GetWalletTransactions(data.wallet_address, data.asset_id, rng0), data, st)

\* except Exception as e: raise HTTPException(status_code=500, detail=str(e))
ExceptException(t) ==
    IF t.raised /\ Catches("Exception", t.exc)
    THEN [t EXCEPT !.exc = HTTPException(500, Str(t.exc))]
    ELSE t

\* try: ... except Exception as e: ...
AnalyzeWallet(data, st, rng0) == ExceptException(TryBlock(data, st, rng0))

----------------------------------------------------------------------------
(* The HTTP layer *)

\* request bodies: the schema-valid ones, and the one of the test suite that
\* lacks asset_id
Bodies ==
    [wallet_address : Wallets, asset_id : AssetIds] \cup {[wallet_address |-> "STU_0"]}

\* validation against FraudCheck: wallet_address: str, asset_id: int
SchemaValid(body) == DOMAIN body = {"wallet_address", "asset_id"}

NoResponse == [status |-> 0, body |-> <<>>]

IdleRequest ==
    [ pc |-> "idle", data |-> <<>>, called |-> FALSE, txns |-> <<>>,
      wallet_features |-> <<>>, inferred |-> FALSE, risk_score |-> 0 - 1,
      decision |-> "NONE" ]

\* the response the framework sends for what the handler returned or raised
ResponseOf(h) ==
    IF h.raised THEN [status |-> h.exc.status_code, body |-> [detail |-> h.exc.detail]]
    ELSE [status |-> 200, body |-> h.result]

\* a handler that calls the freeze itself: a failure of the call reaches the client
ResponseAfterTaskInline(response, outcome) ==
    IF outcome = "raised"
    THEN [status |-> 500, body |-> [detail |-> "freeze failed"]]
    ELSE response

\* the freeze is handed to background_tasks and the response is returned without
\* running it: the response the client has is the one the handler returned
ResponseAfterTask(response, outcome) == response

\* trigger_blockchain_freeze(wallet, asset_id): prints the freeze line, or fails
TriggerBlockchainFreeze(log, task, outcome) ==
    Append(log, [wallet |-> task.wallet, asset_id |-> task.asset_id, outcome |-> outcome])

----------------------------------------------------------------------------
(* Actions *)

Init ==
    /\ started = "no"
    /\ state = <<>>
    /\ rng \in {11, 4242}
    /\ req = [r \in Requests |-> IdleRequest]
    /\ resp = [r \in Requests |-> NoResponse]
    /\ tasks = [r \in Requests |-> <<>>]
    /\ freezeLog = [r \in Requests |-> <<>>]

\* load_resources with label_encoder.pkl present
LoadResources ==
    /\ started = "no"
    /\ \E m \in Models :
         state' = [ algo_indexer |-> "IndexerClient",
                    encoder |-> LabelEncoder(EncoderClasses),
                    model |-> m ]
    /\ started' = "up"
    /\ UNCHANGED <<rng, req, resp, tasks, freezeLog>>

\* load_resources with label_encoder.pkl missing: FileNotFoundError, encoder = None
LoadResourcesNoEncoder ==
    /\ started = "no"
    /\ \E m \in Models :
         state' = [ algo_indexer |-> "IndexerClient",
                    encoder |-> NoneEncoder,
                    model |-> m ]
    /\ started' = "up"
    /\ UNCHANGED <<rng, req, resp, tasks, freezeLog>>

\* load_resources re-raising any other exception: the application does not start
LoadResourcesFails ==
    /\ started = "no"
    /\ started' = "failed"
    /\ UNCHANGED <<state, rng, req, resp, tasks, freezeLog>>

\* POST /analyze-wallet with a body that fails validation: 422, handler not called
PostInvalid(r) ==
    /\ started = "up"
    /\ req[r].pc = "idle"
    /\ \A q \in Requests : q < r => req[q].pc # "idle"
    /\ \E body \in Bodies :
         /\ ~SchemaValid(body)
         /\ req' = [req EXCEPT ![r] = [@ EXCEPT !.pc = "responded", !.data = body]]
         /\ resp' = [resp EXCEPT ![r] = [status |-> 422, body |-> [detail |-> "Field required"]]]
    /\ UNCHANGED <<started, state, rng, tasks, freezeLog>>

\* POST /analyze-wallet with a schema-valid body: the whole handler, and the
\* response built from what it returned or raised
PostAnalyzeWallet(r) ==
    /\ started = "up"
    /\ req[r].pc = "idle"
    /\ \A q \in Requests : q < r => req[q].pc # "idle"
    /\ \E body \in Bodies :
         /\ SchemaValid(body)
         /\ \E h \in {AnalyzeWallet(body, state, rng)} :
                /\ req' = [req EXCEPT ![r] =
                             [ pc |-> "responded", data |-> body, called |-> TRUE,
                               txns |-> h.txns, wallet_features |-> h.wallet_features,
                               inferred |-> h.inferred, risk_score |-> h.risk_score,
                               decision |-> h.decision ]]
                /\ rng' = h.rng
                /\ resp' = [resp EXCEPT ![r] = ResponseOf(h)]
                /\ tasks' = [tasks EXCEPT ![r] = IF h.raised THEN <<>> ELSE h.tasks]
    /\ UNCHANGED <<started, state, freezeLog>>

\* the background tasks of a request, run after its response has been sent
RunBackgroundTask(r) ==
    /\ req[r].pc = "responded"
    /\ tasks[r] # <<>>
    /\ \E outcome \in {"ok", "raised"} :
         /\ freezeLog' = [freezeLog EXCEPT ![r] =
                            TriggerBlockchainFreeze(@, Head(tasks[r]), outcome)]
         /\ resp' = [resp EXCEPT ![r] = ResponseAfterTask(@, outcome)]
    /\ tasks' = [tasks EXCEPT ![r] = Tail(@)]
    /\ UNCHANGED <<started, state, rng, req>>

Next ==
    \/ LoadResources
    \/ LoadResourcesNoEncoder
    \/ LoadResourcesFails
    \/ \E r \in Requests : PostInvalid(r)
    \/ \E r \in Requests : PostAnalyzeWallet(r)
    \/ \E r \in Requests : RunBackgroundTask(r)

Spec == Init /\ [][Next]_vars

----------------------------------------------------------------------------
(* Feature extraction on arbitrary transaction lists *)

\* the amounts around the structuring limit
ProbeAmounts == {StructuringLimit - 1, StructuringLimit, StructuringLimit + 1}

ProbeWallets == {"MULE_0", "STU_0"}

\* the transactions between a wallet and one other party
ProbeTxns(w) ==
    [sender : {w, "HUB_COLLECTOR_01"}, receiver : {w, "HUB_COLLECTOR_01"},
     amount : ProbeAmounts]

\* the lists of at most MaxTxns of them
ProbeLists(w) ==
    UNION { [1..n -> ProbeTxns(w)] : n \in 0..MaxTxns }

InitFeat ==
    /\ started = "up"
    /\ state = <<>>
    /\ rng = 0
    /\ \E w \in ProbeWallets : \E ts \in ProbeLists(w) :
         req = [r \in Requests |->
                  IF r = 1
                  THEN [IdleRequest EXCEPT !.pc = "extract",
                                           !.data = [wallet_address |-> w, asset_id |-> 100],
                                           !.called = TRUE,
                                           !.txns = ts]
                  ELSE IdleRequest]
    /\ resp = [r \in Requests |-> NoResponse]
    /\ tasks = [r \in Requests |-> <<>>]
    /\ freezeLog = [r \in Requests |-> <<>>]

\* part C of analyze_wallet on the list the request holds
ExtractFeatures(r) ==
    /\ req[r].pc = "extract"
    /\ req' = [req EXCEPT ![r] =
                 [@ EXCEPT !.pc = "extracted",
                           !.wallet_features =
                               WalletFeatures(req[r].txns, req[r].data.wallet_address)]]
    /\ UNCHANGED <<started, state, rng, resp, tasks, freezeLog>>

NextFeat == \E r \in Requests : ExtractFeatures(r)

SpecFeat == InitFeat /\ [][NextFeat]_vars

----------------------------------------------------------------------------
(* Properties *)

\* the request has been through the handler
Called(r) == req[r].pc = "responded" /\ req[r].called

Wallet(r) == req[r].data.wallet_address

\* the number of freeze tasks scheduled for a request so far: waiting and run
Scheduled(r) == Len(tasks[r]) + Len(freezeLog[r])

\* C1: with the encoder loaded, a schema-valid request whose wallet_address the
\* encoder does not know is answered 404, and inference is not run for it.
C1_UnknownWalletIs404 ==
    \A r \in Requests :
        (Called(r) /\ ~state.encoder.isNone /\ Wallet(r) \notin state.encoder.classes)
            => (resp[r].status = 404 /\ ~req[r].inferred)

\* C2: with encoder = None after startup, every schema-valid analyze request is
\* answered 503.
C2_NoEncoderIs503 ==
    \A r \in Requests :
        (Called(r) /\ state.encoder.isNone) => resp[r].status = 503

\* C3: the decision is the threshold function of the score, strict at both
\* boundaries: above 0.85 FRAUD_HIGH, above 0.60 up to 0.85 SUSPICIOUS_REVIEW,
\* up to 0.60 CLEAR, and nothing else.
C3_DecisionThresholds ==
    \A r \in Requests :
        resp[r].status = 200 =>
            /\ resp[r].body.decision \in {"CLEAR", "SUSPICIOUS_REVIEW", "FRAUD_HIGH"}
            /\ (resp[r].body.decision = "FRAUD_HIGH") = (req[r].risk_score > FraudThreshold)
            /\ (resp[r].body.decision = "SUSPICIOUS_REVIEW") =
                   (req[r].risk_score > ReviewThreshold /\ req[r].risk_score <= FraudThreshold)
            /\ (resp[r].body.decision = "CLEAR") = (req[r].risk_score <= ReviewThreshold)

\* a score of exactly 0.85 answered SUSPICIOUS_REVIEW and one of exactly 0.60
\* answered CLEAR
C3_Witness ==
    \E r1, r2 \in Requests :
        /\ resp[r1].status = 200 /\ req[r1].risk_score = FraudThreshold
        /\ resp[r1].body.decision = "SUSPICIOUS_REVIEW"
        /\ resp[r2].status = 200 /\ req[r2].risk_score = ReviewThreshold
        /\ resp[r2].body.decision = "CLEAR"

\* C4: a freeze task, with the request's wallet_address and asset_id, is
\* scheduled for a request exactly when its decision is FRAUD_HIGH, at most once,
\* with the decision already computed, and never for a request answered 404,
\* 422, 500 or 503 or decided CLEAR or SUSPICIOUS_REVIEW.
C4_FreezeIffFraudHigh ==
    \A r \in Requests :
        /\ Scheduled(r) <= 1
        /\ (Scheduled(r) = 1) =
               (req[r].pc = "responded" /\ resp[r].status = 200
                    /\ resp[r].body.decision = "FRAUD_HIGH")
        /\ Scheduled(r) = 1 => req[r].decision = "FRAUD_HIGH"
        /\ resp[r].status \in {404, 422, 500, 503} => Scheduled(r) = 0
        /\ req[r].decision \in {"CLEAR", "SUSPICIOUS_REVIEW"} => Scheduled(r) = 0
        /\ \A i \in 1..Len(tasks[r]) :
               tasks[r][i] = FreezeTask(Wallet(r), req[r].data.asset_id)
        /\ \A i \in 1..Len(freezeLog[r]) :
               /\ freezeLog[r][i].wallet = Wallet(r)
               /\ freezeLog[r][i].asset_id = req[r].data.asset_id

\* a FRAUD_HIGH request with its freeze waiting, and a SUSPICIOUS_REVIEW
\* request with none
C4_Witness ==
    \E r1, r2 \in Requests :
        /\ resp[r1].status = 200 /\ resp[r1].body.decision = "FRAUD_HIGH"
        /\ Len(tasks[r1]) = 1
        /\ resp[r2].status = 200 /\ resp[r2].body.decision = "SUSPICIOUS_REVIEW"
        /\ Scheduled(r2) = 0

\* C5: the response of a request is fixed once given: no later step changes it,
\* and a step that runs the freeze task, failing or not, finds the 200 response
\* already given and leaves it as it is.
C5_ResponseFixedBeforeFreeze ==
    [][ \A r \in Requests :
            /\ resp[r].status # 0 => resp'[r] = resp[r]
            /\ freezeLog'[r] # freezeLog[r] =>
                   (resp[r].status = 200 /\ resp'[r] = resp[r]) ]_vars

\* a freeze task that failed, and the 200 FRAUD_HIGH response of its request
C5_Witness ==
    \E r \in Requests :
        /\ Len(freezeLog[r]) = 1 /\ freezeLog[r][1].outcome = "raised"
        /\ resp[r].status = 200 /\ resp[r].body.decision = "FRAUD_HIGH"

\* C6: two calls of get_wallet_transactions with the same address return the
\* same list, whatever asset_id each is given and whatever state the earlier
\* calls left the generator in.
C6_SimulatorDeterministic ==
    \A r1, r2 \in Requests :
        (Called(r1) /\ Called(r2) /\ Wallet(r1) = Wallet(r2))
            => req[r1].txns = req[r2].txns

\* two calls with the same address and different asset ids
C6_Witness ==
    \E r1, r2 \in Requests :
        /\ r1 # r2 /\ Called(r1) /\ Called(r2)
        /\ Wallet(r1) = Wallet(r2)
        /\ req[r1].data.asset_id # req[r2].data.asset_id
        /\ Len(req[r1].txns) > 0

\* the features of a student wallet: every transaction from the scholarship
\* department, in_degree the count, out_degree 0, avg_outgoing 0, score 0.1
StudentShape(r) ==
    /\ \A i \in 1..Len(req[r].txns) : req[r].txns[i].sender = "GOVT_SCHOLARSHIP_DEPT"
    /\ req[r].inferred =>
           /\ req[r].wallet_features[1] = Len(req[r].txns)
           /\ req[r].wallet_features[2] = 0
           /\ req[r].wallet_features[3] = 0
           /\ req[r].wallet_features[4] = StructuringLow

\* C7 as stated: every address containing "STU" has the student shape.
C7_EveryStuAddress ==
    \A r \in Requests :
        (Called(r) /\ Contains("STU", Wallet(r))) => StudentShape(r)

\* C7 amended: every address containing "STU" and neither "MULE" nor "HUB" has
\* the student shape.
C7_StuAddressNotMuleNotHub ==
    \A r \in Requests :
        (Called(r) /\ Contains("STU", Wallet(r))
             /\ ~Contains("MULE", Wallet(r)) /\ ~Contains("HUB", Wallet(r)))
            => StudentShape(r)

\* a student wallet the encoder knows, with its features extracted, and one that
\* also contains GOVT
C7_Witness ==
    \E r1, r2 \in Requests :
        /\ Called(r1) /\ Wallet(r1) = "STU_0" /\ req[r1].inferred
        /\ Len(req[r1].txns) > 0
        /\ Called(r2) /\ Wallet(r2) = "GOVT_STU_2"

\* the list is that of one pattern: count in lo..hi, amounts in alo..ahi
InRanges(ts, lo, hi, alo, ahi) ==
    /\ Len(ts) \in lo..hi
    /\ \A i \in 1..Len(ts) : ts[i].amount \in alo..ahi

\* C8: the list is that of the first of MULE, HUB, STU, GOVT the address
\* contains, else the default one, with that pattern's count, sender, receiver
\* and amounts; for an address containing MULE out_degree is the count.
C8_FirstMatchWins ==
    \A r \in Requests :
        Called(r) =>
            IF Contains("MULE", Wallet(r)) THEN
                /\ InRanges(req[r].txns, 15, 30, 100, 500)
                /\ \A i \in 1..Len(req[r].txns) :
                       /\ req[r].txns[i].sender = Wallet(r)
                       /\ req[r].txns[i].receiver = "HUB_COLLECTOR_01"
                /\ req[r].inferred => req[r].wallet_features[2] = Len(req[r].txns)
            ELSE IF Contains("HUB", Wallet(r)) THEN
                /\ InRanges(req[r].txns, 20, 40, 100, 500)
                /\ \A i \in 1..Len(req[r].txns) :
                       /\ req[r].txns[i].sender = "MULE_" \o ToString((i - 1) % 10)
                       /\ req[r].txns[i].receiver = Wallet(r)
            ELSE IF Contains("STU", Wallet(r)) THEN
                /\ InRanges(req[r].txns, 1, 5, 1000, 5000)
                /\ \A i \in 1..Len(req[r].txns) :
                       /\ req[r].txns[i].sender = "GOVT_SCHOLARSHIP_DEPT"
                       /\ req[r].txns[i].receiver = Wallet(r)
            ELSE IF Contains("GOVT", Wallet(r)) THEN
                /\ InRanges(req[r].txns, 40, 60, 1000, 5000)
                /\ \A i \in 1..Len(req[r].txns) :
                       /\ req[r].txns[i].sender = Wallet(r)
                       /\ req[r].txns[i].receiver = "STU_" \o ToString((i - 1) % 50)
            ELSE
                /\ InRanges(req[r].txns, 1, 3, 100, 1000)
                /\ \A i \in 1..Len(req[r].txns) :
                       /\ req[r].txns[i].sender = Wallet(r)
                       /\ req[r].txns[i].receiver = "UNKNOWN_RECIPIENT"

\* an address containing both STU and MULE, and a mule wallet the encoder knows
\* with its features extracted
C8_Witness ==
    \E r1, r2 \in Requests :
        /\ Called(r1) /\ Wallet(r1) = "STU_MULE_1"
        /\ Called(r2) /\ Wallet(r2) = "MULE_0" /\ req[r2].inferred

\* out_degree and total outgoing amount of a list, counted directly
OutDegree(ts, w) == Cardinality({i \in 1..Len(ts) : ts[i].sender = w})

RECURSIVE TotalOutgoing(_, _)
TotalOutgoing(ts, w) ==
    IF Len(ts) = 0 THEN 0
    ELSE (IF Head(ts).sender = w THEN Head(ts).amount ELSE 0) + TotalOutgoing(Tail(ts), w)

\* C9: structuring_score is 0.8 exactly when out_degree > 0 and the average
\* outgoing amount is below 500, and 0.1 otherwise: at an average of exactly
\* 500, and at out_degree 0.
C9_StructuringScore ==
    \A r \in Requests :
        req[r].pc = "extracted" =>
            req[r].wallet_features[4] =
                IF OutDegree(req[r].txns, Wallet(r)) > 0
                   /\ TotalOutgoing(req[r].txns, Wallet(r))
                          < 500 * OutDegree(req[r].txns, Wallet(r))
                THEN 8 ELSE 1

\* two outgoing transactions that average exactly 500, scored 0.1
C9_Witness ==
    \E r \in Requests :
        /\ req[r].pc = "extracted"
        /\ OutDegree(req[r].txns, Wallet(r)) = 2
        /\ TotalOutgoing(req[r].txns, Wallet(r)) = 1000
        /\ req[r].txns[1].amount # req[r].txns[2].amount
        /\ req[r].wallet_features[4] = 1

\* C10 as stated: responses with equal risk_score carry the same decision; a
\* risk_score of 0.85 comes with SUSPICIOUS_REVIEW and one of 0.6 with CLEAR.
C10_DecisionOfReportedScore ==
    /\ \A r1, r2 \in Requests :
           (resp[r1].status = 200 /\ resp[r2].status = 200
                /\ resp[r1].body.risk_score = resp[r2].body.risk_score)
               => resp[r1].body.decision = resp[r2].body.decision
    /\ \A r \in Requests :
           resp[r].status = 200 =>
               /\ resp[r].body.risk_score = 8500 => resp[r].body.decision = "SUSPICIOUS_REVIEW"
               /\ resp[r].body.risk_score = 6000 => resp[r].body.decision = "CLEAR"

\* C10 amended: responses with equal risk_score carry the same decision unless
\* that risk_score is 0.85 or 0.6; a risk_score of 0.85 comes with
\* SUSPICIOUS_REVIEW or FRAUD_HIGH and one of 0.6 with CLEAR or SUSPICIOUS_REVIEW.
C10_DecisionOfReportedScoreOffThreshold ==
    /\ \A r1, r2 \in Requests :
           (resp[r1].status = 200 /\ resp[r2].status = 200
                /\ resp[r1].body.risk_score = resp[r2].body.risk_score
                /\ resp[r1].body.risk_score \notin {8500, 6000})
               => resp[r1].body.decision = resp[r2].body.decision
    /\ \A r \in Requests :
           resp[r].status = 200 =>
               /\ resp[r].body.risk_score = 8500 =>
                      resp[r].body.decision \in {"SUSPICIOUS_REVIEW", "FRAUD_HIGH"}
               /\ resp[r].body.risk_score = 6000 =>
                      resp[r].body.decision \in {"CLEAR", "SUSPICIOUS_REVIEW"}

\* two responses that report the same risk_score away from the thresholds, and
\* one that reports 0.85
C10_Witness ==
    \E r1, r2 \in Requests :
        /\ r1 # r2
        /\ resp[r1].status = 200 /\ resp[r2].status = 200
        /\ Wallet(r1) # Wallet(r2)
        /\ resp[r1].body.risk_score = resp[r2].body.risk_score
        /\ resp[r1].body.risk_score \notin {8500, 6000}
        /\ req[r1].risk_score # req[r2].risk_score

====
